---- MODULE Spec2Model ----
(***************************************************************************)
(* A model of backend/server.py: the user store and the problem store     *)
(* (two MongoDB collections), the JWT helpers, and the six handlers of    *)
(* the /api router.  Time is counted in whole minutes since an arbitrary  *)
(* epoch (the unit of ACCESS_TOKEN_EXPIRE_MINUTES); a calendar day (UTC)  *)
(* is now \div MinutesPerDay.  The created_at fields are written once and *)
(* read by no handler's logic; they are left out of the documents.        *)
(***************************************************************************)
EXTENDS Integers, Sequences, FiniteSets, TLC

VARIABLES
    users,      \* db.users: the documents in insertion order
    problems,   \* db.problems: the documents in insertion order
    now,        \* datetime.now(timezone.utc), in minutes
    tokens,     \* the tokens clients hold: what was issued, when and to whom
    inflight,   \* requests suspended at an await: slot -> local variables
    resp        \* the last response sent, with the request it answers

vars == <<users, problems, now, tokens, inflight, resp>>

---------------------------------------------------------------------------
(* Bounds of the model.                                                    *)

StartDay == 10          \* the day the server starts on
MaxTokens == 1          \* tokens the clients keep
MaxMinuteTicks == 2     \* one-minute clock steps
MaxLongTicks == 1       \* clock steps of nearly the token lifetime
MaxProblems == 2        \* documents in db.problems created by POST /problems
MaxDaysBack == 2        \* how far in the past a client dates a problem
MaxInflight == 2        \* requests suspended at an await at one time
MaxStored == 1001       \* documents in db.problems when one client posts many

---------------------------------------------------------------------------
(* Settings and helper functions.                                          *)

MinutesPerDay == 24 * 60

ACCESS_TOKEN_EXPIRE_MINUTES == 30 * 24 * 60

SECRET_KEY == "JWT_SECRET"

\* `import jwt` binds PyJWT, whose module has ExpiredSignatureError and no
\* attribute JWTError: evaluating `except jwt.JWTError` raises AttributeError.
HasJWTError == FALSE

\* The UTC calendar day of an instant: datetime.date().
DateOf(t) == t \div MinutesPerDay

\* A plain string used as date_completed.  date.isoformat() gives the
\* fixed-width "YYYY-MM-DD", whose string order is the order of the days;
\* the empty string sorts before every other string, and a string that
\* starts with a letter, such as "n/a", after every string of digits.
IsoFormat(d) == <<"iso", d>>
EmptyString == <<"txt", 0>>
LetterString == <<"txt", 2>>
IsIsoString(s) == s[1] = "iso"
\* datetime.fromisoformat(s).date(); callers test IsIsoString first, the
\* ValueError of a string that is no ISO date is theirs to propagate.
FromIsoFormat(s) == s[2]

\* Python's < on these strings.
StrLess(a, b) ==
    LET class(s) == IF IsIsoString(s) THEN 1 ELSE s[2]
    IN  IF IsIsoString(a) /\ IsIsoString(b) THEN a[2] < b[2]
        ELSE class(a) < class(b)

hash_password(password) == <<"$2b$", password>>

verify_password(plain_password, hashed_password) ==
    hashed_password = <<"$2b$", plain_password>>

create_access_token_short(sub, t) ==
    [sub |-> sub, exp |-> t + 30, sig |-> SECRET_KEY]

create_access_token(sub, t) ==
    [sub |-> sub, exp |-> t + ACCESS_TOKEN_EXPIRE_MINUTES, sig |-> SECRET_KEY]

\* Credentials of a request.  sub = 0 is a payload without "sub";
\* sig = "absent" is a request without an Authorization header.
NoCredentials == [sub |-> 0, exp |-> 0, sig |-> "absent"]
NoToken == [sub |-> 0, exp |-> 0, sig |-> "none"]

\* jwt.decode: the signature is verified first, then the exp claim.
jwt_decode(token, t) ==
    IF token.sig # SECRET_KEY THEN "InvalidSignatureError"
    ELSE IF token.exp <= t THEN "ExpiredSignatureError"
    ELSE "ok"

\* The status an exception other than ExpiredSignatureError leaves the
\* try block of get_current_user with: the handler at `except jwt.JWTError`.
JWTErrorStatus == IF HasJWTError THEN 401 ELSE 500

\* The dependency of every protected handler: [status, user_id], status 200
\* when the handler runs as user_id.  `missing` is the status HTTPBearer
\* itself answers a request without credentials with.
get_current_user(cred, t, missing) ==
    IF cred.sig = "absent" THEN [status |-> missing, user_id |-> 0]
    ELSE IF jwt_decode(cred, t) = "InvalidSignatureError"
        THEN [status |-> JWTErrorStatus, user_id |-> 0]
    ELSE IF jwt_decode(cred, t) = "ExpiredSignatureError"
        THEN [status |-> 401, user_id |-> 0]
    ELSE IF cred.sub = 0 THEN [status |-> JWTErrorStatus, user_id |-> 0]
    ELSE [status |-> 200, user_id |-> cred.sub]

\* HTTPBearer(auto_error=True) without an Authorization header: 403 in the
\* FastAPI releases before 0.122, 401 since.
HTTPBearerMissing == {401, 403}

---------------------------------------------------------------------------
(* The two collections.                                                    *)

NoUser == [id |-> 0, username |-> "", password |-> <<"", "">>]

find_one_miss(us, username) == NoUser

\* db.users.find_one({"username": username}): the first match, or None.
find_one(us, username) ==
    IF \E i \in 1..Len(us) : us[i].username = username
    THEN us[CHOOSE i \in 1..Len(us) :
                /\ us[i].username = username
                /\ \A j \in 1..(i - 1) : us[j].username # username]
    ELSE NoUser

\* The length find(...).to_list(1000) cuts a result to.
ToListLength == 1000

SelectOwned(ps, user_id) ==
    LET Matches(p) == p.user_id = user_id
    IN  SelectSeq(ps, Matches)

\* db.problems.find({"user_id": user_id}).to_list(1000)
find_by_user(ps, user_id) ==
    LET owned == SelectOwned(ps, user_id)
    IN  SubSeq(owned, 1,
               IF Len(owned) < ToListLength THEN Len(owned) ELSE ToListLength)

\* db.problems.count_documents({"user_id": user_id})
count_documents(ps, user_id) == Len(SelectOwned(ps, user_id))

---------------------------------------------------------------------------
(* get_stats: the topic counts and the streak.                             *)

RECURSIVE FlattenTopics(_)
FlattenTopics(ps) ==
    IF ps = <<>> THEN <<>> ELSE Head(ps).topics \o FlattenTopics(Tail(ps))

\* topic_count[topic] = topic_count.get(topic, 0) + 1 on an insertion-ordered
\* dict, held as a sequence of [topic, count].
BumpTopic(tc, topic) ==
    IF \E i \in 1..Len(tc) : tc[i].topic = topic
    THEN LET i == CHOOSE k \in 1..Len(tc) : tc[k].topic = topic
         IN  [tc EXCEPT ![i].count = @ + 1]
    ELSE Append(tc, [topic |-> topic, count |-> 1])

RECURSIVE TopicCount(_)
TopicCount(flat) ==
    IF flat = <<>> THEN <<>>
    ELSE BumpTopic(TopicCount(SubSeq(flat, 1, Len(flat) - 1)), flat[Len(flat)])

\* round(count / total_solved * 100, 1), in tenths of a percent, ties to even.
Percentage(count, total) ==
    IF total = 0 THEN 0
    ELSE LET q == (count * 1000) \div total
             r == (count * 1000) % total
         IN  IF 2 * r < total THEN q
             ELSE IF 2 * r > total THEN q + 1
             ELSE IF q % 2 = 0 THEN q ELSE q + 1

\* list.sort(key=count, reverse=True) is stable: x goes behind every entry
\* whose count is at least its own.
InsertByCount(sorted, x) ==
    LET k == Cardinality({i \in 1..Len(sorted) : sorted[i].count >= x.count})
    IN  SubSeq(sorted, 1, k) \o <<x>> \o SubSeq(sorted, k + 1, Len(sorted))

RECURSIVE SortByCount(_)
SortByCount(tw) ==
    IF tw = <<>> THEN <<>>
    ELSE InsertByCount(SortByCount(SubSeq(tw, 1, Len(tw) - 1)), tw[Len(tw)])

TopicWise(ps) ==
    LET tc == TopicCount(FlattenTopics(ps))
    IN  SortByCount([i \in 1..Len(tc) |->
            [topic |-> tc[i].topic, count |-> tc[i].count,
             percentage |-> Percentage(tc[i].count, Len(ps))]])

\* sorted(set(...), reverse=True) on date strings.
RECURSIVE SortedDesc(_)
SortedDesc(S) ==
    IF S = {} THEN <<>>
    ELSE LET m == CHOOSE x \in S : \A y \in S : ~StrLess(x, y)
         IN  <<m>> \o SortedDesc(S \ {m})

\* The loop of get_stats from index i (0-based) on, with the streak so far.
\* -1 stands for the ValueError of datetime.fromisoformat.
RECURSIVE StreakLoopGrace(_, _, _, _)
StreakLoopGrace(dates, today, i, streak) ==
    IF i >= Len(dates) THEN streak
    ELSE IF ~IsIsoString(dates[i + 1]) THEN -1
    ELSE IF FromIsoFormat(dates[i + 1]) = today - i
             \/ (i = 0 /\ FromIsoFormat(dates[1]) = today - 1)
        THEN StreakLoopGrace(dates, today, i + 1, streak + 1)
    ELSE streak

RECURSIVE StreakLoopBody(_, _, _, _)
StreakLoopBody(dates, today, i, streak) ==
    IF i >= Len(dates) THEN streak
    ELSE IF ~IsIsoString(dates[i + 1]) THEN -1
    ELSE IF FromIsoFormat(dates[i + 1]) = today - i
        THEN StreakLoopBody(dates, today, i + 1, streak + 1)
    ELSE streak

StreakLoop(dates, today, i, streak) == StreakLoopBody(dates, today, i, streak)

CurrentStreak(ps, today) ==
    IF ps = <<>> THEN 0
    ELSE StreakLoop(SortedDesc({ps[i].date_completed : i \in 1..Len(ps)}),
                    today, 0, 0)

NoStats == [total_solved |-> 0, current_streak |-> 0, topic_wise |-> <<>>]

\* The Stats a user's problems give at time t, or the 500 of an exception.
StatsOf(ps, t) ==
    LET streak == CurrentStreak(ps, DateOf(t))
    IN  IF streak = -1 THEN [status |-> 500, stats |-> NoStats]
        ELSE [status |-> 200,
              stats |-> [total_solved |-> Len(ps),
                         current_streak |-> streak,
                         topic_wise |-> TopicWise(ps)]]

---------------------------------------------------------------------------
(* Requests and responses.                                                 *)

\* A ProblemCreate body.  complete = FALSE is a body pydantic rejects: a
\* required field is missing or has the wrong type.
NoBody ==
    [complete |-> FALSE, title |-> "", platform |-> "", difficulty |-> "",
     topics |-> <<>>, date_completed |-> EmptyString]

Request(op, cred, username, password, body) ==
    [op |-> op, cred |-> cred, username |-> username, password |-> password,
     body |-> body]

Response(req, status, user_id, token, docs, stats, message) ==
    [op |-> req.op, req |-> req, at |-> now, status |-> status,
     user_id |-> user_id, token |-> token, problems |-> docs, stats |-> stats,
     message |-> message]

NoResponse ==
    Response(Request("none", NoCredentials, "", "", NoBody),
             0, 0, NoToken, <<>>, NoStats, "")

\* An error response: nothing but the status.
ErrorResponse(req, status) ==
    Response(req, status, 0, NoToken, <<>>, NoStats, "")

\* The clients keep the tokens of the latest Token responses.
Keep(held, token, t, user_id) ==
    LET w == [tok |-> token, issued_at |-> t, user_id |-> user_id]
        q == IF \E i \in 1..Len(held) : held[i] = w THEN held
             ELSE Append(held, w)
    IN  IF Len(q) > MaxTokens THEN Tail(q) ELSE q

Idle == [op |-> "idle", pc |-> 0, username |-> "", password |-> "",
         user_id |-> 0, t0 |-> 0]

---------------------------------------------------------------------------
(* POST /auth/register                                                     *)

\* The branch of register after find_one found a user.
RegisterReject(req) ==
    /\ resp' = ErrorResponse(req, 400)
    /\ UNCHANGED <<users, tokens>>

\* The rest of register: User(...), insert_one, create_access_token.
RegisterInsertUser(req) ==
    LET user == [id |-> Len(users) + 1, username |-> req.username,
                 password |-> hash_password(req.password)]
        access_token == create_access_token(user.id, now)
    IN  /\ users' = Append(users, user)
        /\ tokens' = Keep(tokens, access_token, now, user.id)
        /\ resp' = Response(req, 200, user.id, access_token, <<>>, NoStats, "")

\* register with nothing running between its two store calls.
Register(username, password) ==
    LET req == Request("register", NoCredentials, username, password, NoBody)
    IN  /\ IF find_one(users, username) # NoUser
           THEN RegisterReject(req)
           ELSE RegisterInsertUser(req)
        /\ UNCHANGED <<problems, now, inflight>>

\* register up to its second await: find_one has answered.
RegisterFind(r, username, password) ==
    LET req == Request("register", NoCredentials, username, password, NoBody)
    IN  /\ inflight[r] = Idle
        /\ IF find_one(users, username) # NoUser
           THEN /\ RegisterReject(req)
                /\ UNCHANGED inflight
           ELSE /\ inflight' = [inflight EXCEPT ![r] =
                        [Idle EXCEPT !.op = "register", !.username = username,
                                     !.password = password]]
                /\ UNCHANGED <<users, tokens, resp>>
        /\ UNCHANGED <<problems, now>>

\* register from insert_one to its return.
RegisterInsert(r) ==
    /\ inflight[r].op = "register"
    /\ RegisterInsertUser(Request("register", NoCredentials,
                                  inflight[r].username, inflight[r].password,
                                  NoBody))
    /\ inflight' = [inflight EXCEPT ![r] = Idle]
    /\ UNCHANGED <<problems, now>>

---------------------------------------------------------------------------
(* POST /auth/login                                                        *)

Login(username, password) ==
    LET req == Request("login", NoCredentials, username, password, NoBody)
        user_doc == find_one(users, username)
    IN  /\ IF user_doc = NoUser
              \/ ~verify_password(password, user_doc.password)
           THEN /\ resp' = ErrorResponse(req, 401)
                /\ UNCHANGED tokens
           ELSE LET access_token == create_access_token(user_doc.id, now)
                IN  /\ tokens' = Keep(tokens, access_token, now, user_doc.id)
                    /\ resp' = Response(req, 200, user_doc.id, access_token,
                                        <<>>, NoStats, "")
        /\ UNCHANGED <<users, problems, now, inflight>>

---------------------------------------------------------------------------
(* POST /problems, GET /problems, GET /stats                               *)

\* Problem(user_id=..., **problem_data) as the document insert_one stores.
ProblemDoc(id, user_id, data) ==
    [id |-> id, user_id |-> user_id, title |-> data.title,
     platform |-> data.platform, difficulty |-> data.difficulty,
     topics |-> data.topics, date_completed |-> data.date_completed]

\* ProblemCreate as declared: five required fields, a str or a List[str]
\* each, with no constraint on their values.
ValidProblemCreate(body) == body.complete

CreateProblem(cred, body, missing) ==
    LET req == Request("create_problem", cred, "", "", body)
        auth == get_current_user(cred, now, missing)
    IN  /\ IF auth.status # 200
           THEN /\ resp' = ErrorResponse(req, auth.status)
                /\ UNCHANGED problems
           ELSE IF ~ValidProblemCreate(body)
           THEN /\ resp' = Response(req, 422, auth.user_id, NoToken, <<>>,
                                    NoStats, "")
                /\ UNCHANGED problems
           ELSE LET problem == ProblemDoc(Len(problems) + 1, auth.user_id, body)
                IN  /\ problems' = Append(problems, problem)
                    /\ resp' = Response(req, 200, auth.user_id, NoToken,
                                        <<problem>>, NoStats, "")
        /\ UNCHANGED <<users, now, tokens, inflight>>

GetProblems(cred, missing) ==
    LET req == Request("get_problems", cred, "", "", NoBody)
        auth == get_current_user(cred, now, missing)
    IN  /\ IF auth.status # 200
           THEN resp' = ErrorResponse(req, auth.status)
           ELSE resp' = Response(req, 200, auth.user_id, NoToken,
                                 find_by_user(problems, auth.user_id),
                                 NoStats, "")
        /\ UNCHANGED <<users, problems, now, tokens, inflight>>

GetStats(cred, missing) ==
    LET req == Request("get_stats", cred, "", "", NoBody)
        auth == get_current_user(cred, now, missing)
    IN  /\ IF auth.status # 200
           THEN resp' = ErrorResponse(req, auth.status)
           ELSE LET r == StatsOf(find_by_user(problems, auth.user_id), now)
                IN  resp' = Response(req, r.status, auth.user_id, NoToken,
                                     <<>>, r.stats, "")
        /\ UNCHANGED <<users, problems, now, tokens, inflight>>

---------------------------------------------------------------------------
(* POST /seed-data                                                         *)

Sample(title, platform, difficulty, topics, days_ago) ==
    [title |-> title, platform |-> platform, difficulty |-> difficulty,
     topics |-> topics, days_ago |-> days_ago]

\* sample_problems, each date_completed held as its distance from today.
SampleProblems ==
    << Sample("Two Sum", "LeetCode", "Easy", <<"Arrays", "Hash Table">>, 5),
       Sample("Reverse Linked List", "LeetCode", "Easy", <<"Linked List">>, 4),
       Sample("Valid Parentheses", "LeetCode", "Easy", <<"Stack", "Strings">>, 3),
       Sample("Binary Tree Inorder Traversal", "LeetCode", "Medium",
              <<"Trees", "DFS">>, 2),
       Sample("Longest Palindromic Substring", "LeetCode", "Medium",
              <<"Strings", "DP">>, 1),
       Sample("Merge Two Sorted Lists", "LeetCode", "Easy", <<"Linked List">>, 0),
       Sample("Maximum Subarray", "LeetCode", "Medium", <<"Arrays", "DP">>, 0),
       Sample("Climbing Stairs", "LeetCode", "Easy", <<"DP">>, 6),
       Sample("Roman to Integer", "Codeforces", "Easy",
              <<"Strings", "Hash Table">>, 7),
       Sample("Binary Search", "Codeforces", "Easy",
              <<"Arrays", "Binary Search">>, 8) >>

\* The document of the k-th sample, the list having been built at time t0.
SampleDoc(k, id, user_id, t0) ==
    LET smp == SampleProblems[k]
    IN  [id |-> id, user_id |-> user_id, title |-> smp.title,
         platform |-> smp.platform, difficulty |-> smp.difficulty,
         topics |-> smp.topics,
         date_completed |-> IsoFormat(DateOf(t0) - smp.days_ago)]

SeedMessage == "Seeded 10 sample problems"
NoSeedMessage == "User already has problems"

SeedAlways(existing_count) == FALSE

\* `if existing_count > 0`: the early return of seed_data.
SeedSkips(existing_count) == existing_count > 0

\* seed_data with nothing running between its store calls.
SeedData(cred, missing) ==
    LET req == Request("seed_data", cred, "", "", NoBody)
        auth == get_current_user(cred, now, missing)
    IN  /\ IF auth.status # 200
           THEN /\ resp' = ErrorResponse(req, auth.status)
                /\ UNCHANGED problems
           ELSE IF SeedSkips(count_documents(problems, auth.user_id))
           THEN /\ resp' = Response(req, 200, auth.user_id, NoToken, <<>>,
                                    NoStats, NoSeedMessage)
                /\ UNCHANGED problems
           ELSE /\ problems' = problems \o
                     [k \in 1..Len(SampleProblems) |->
                         SampleDoc(k, Len(problems) + k, auth.user_id, now)]
                /\ resp' = Response(req, 200, auth.user_id, NoToken, <<>>,
                                    NoStats, SeedMessage)
        /\ UNCHANGED <<users, now, tokens, inflight>>

\* seed_data up to its second await: count_documents has answered and, the
\* caller having no problems, sample_problems is built.
SeedCount(r, cred, missing) ==
    LET req == Request("seed_data", cred, "", "", NoBody)
        auth == get_current_user(cred, now, missing)
    IN  /\ inflight[r] = Idle
        /\ IF auth.status # 200
           THEN /\ resp' = ErrorResponse(req, auth.status)
                /\ UNCHANGED inflight
           ELSE IF SeedSkips(count_documents(problems, auth.user_id))
           THEN /\ resp' = Response(req, 200, auth.user_id, NoToken, <<>>,
                                    NoStats, NoSeedMessage)
                /\ UNCHANGED inflight
           ELSE /\ inflight' = [inflight EXCEPT ![r] =
                        [Idle EXCEPT !.op = "seed_data", !.pc = 1,
                                     !.user_id = auth.user_id, !.t0 = now]]
                /\ UNCHANGED resp
        /\ UNCHANGED <<users, problems, now, tokens>>

\* One turn of the loop of seed_data: insert_one of sample pc; after the
\* last one the handler returns.
SeedInsert(r) ==
    LET f == inflight[r]
        cred == [sub |-> f.user_id, exp |-> 0, sig |-> SECRET_KEY]
    IN  /\ f.op = "seed_data"
        /\ problems' = Append(problems,
                SampleDoc(f.pc, Len(problems) + 1, f.user_id, f.t0))
        /\ IF f.pc = Len(SampleProblems)
           THEN /\ inflight' = [inflight EXCEPT ![r] = Idle]
                /\ resp' = Response(Request("seed_data", cred, "", "", NoBody),
                                    200, f.user_id, NoToken, <<>>, NoStats,
                                    SeedMessage)
           ELSE /\ inflight' = [inflight EXCEPT ![r].pc = @ + 1]
                /\ UNCHANGED resp
        /\ UNCHANGED <<users, now, tokens>>

---------------------------------------------------------------------------
(* The clock, the clients' inputs and the initial state.                   *)

Tick(d) ==
    /\ now' = now + d
    /\ UNCHANGED <<users, problems, tokens, inflight, resp>>

StartNow == StartDay * MinutesPerDay

Slots == 1..MaxInflight

Usernames == {"alice", "bob"}
Passwords == {"pw1", "pw2"}

\* What a client can send as credentials: a token it was given, no header,
\* a token signed with another key, a token of the right key without "sub".
Forged == [sub |-> 1, exp |-> StartNow + 3 * ACCESS_TOKEN_EXPIRE_MINUTES,
           sig |-> "other key"]
SubLess == [sub |-> 0, exp |-> StartNow + 3 * ACCESS_TOKEN_EXPIRE_MINUTES,
            sig |-> SECRET_KEY]
Wallet == {tokens[i] : i \in 1..Len(tokens)}
Held == {w.tok : w \in Wallet}
Credentials == Held \cup {NoCredentials, Forged, SubLess}

\* The tokens a login of a stored user at this minute answers with.
Fresh == {create_access_token(users[i].id, now) : i \in 1..Len(users)}

Body(title, topics, date_completed) ==
    [complete |-> TRUE, title |-> title, platform |-> "LeetCode",
     difficulty |-> "Easy", topics |-> topics,
     date_completed |-> date_completed]

Init ==
    /\ users = <<>>
    /\ problems = <<>>
    /\ now = StartNow
    /\ tokens = <<>>
    /\ inflight = [r \in Slots |-> Idle]
    /\ resp = NoResponse

---------------------------------------------------------------------------
(* SpecRegister: registration and login with any username and password,  *)
(* one request at a time.                                                  *)

RegRegister == \E u \in Usernames, p \in Passwords : Register(u, p)
RegLogin == \E u \in Usernames, p \in Passwords : Login(u, p)
RegGetProblems == \E c \in Held : GetProblems(c, 401)

NextRegister ==
    \/ RegRegister
    \/ RegLogin
    \/ RegGetProblems

SpecRegister == Init /\ [][NextRegister]_vars

---------------------------------------------------------------------------
(* SpecAuth: registration, login and the protected endpoints called with  *)
(* the tokens the server issued, over the lifetime of a token, one        *)
(* request at a time.  SpecGate: the same with any password at             *)
(* registration and any credentials.                                       *)

\* The long clock step ends one minute before a token issued at its start
\* expires, so that the minutes before, at and after the expiry are reached.
LongTick == ACCESS_TOKEN_EXPIRE_MINUTES - 1

AuthTick ==
    \E d \in {1, LongTick} :
        /\ (now + d - StartNow) \div LongTick <= MaxLongTicks
        /\ (now + d - StartNow) % LongTick <= MaxMinuteTicks
        /\ Tick(d)

AuthBody == Body("Two Sum", <<"Arrays">>, IsoFormat(DateOf(now)))

AuthRegister == \E u \in Usernames : Register(u, "pw1")
AuthLogin == \E u \in Usernames, p \in Passwords : Login(u, p)
AuthGetProblems == \E c \in Held : GetProblems(c, 401)
AuthGetStats == \E c \in Held : GetStats(c, 401)
AuthCreateProblem ==
    \E c \in Held :
        /\ Len(problems) < 1
        /\ CreateProblem(c, AuthBody, 401)
AuthSeedData ==
    \E c \in Held :
        /\ Len(problems) < 1
        /\ SeedData(c, 401)

NextAuth ==
    \/ AuthRegister
    \/ AuthLogin
    \/ AuthGetProblems
    \/ AuthGetStats
    \/ AuthCreateProblem
    \/ AuthSeedData
    \/ AuthTick

SpecAuth == Init /\ [][NextAuth]_vars

GateGetProblems ==
    \E c \in Credentials, m \in HTTPBearerMissing : GetProblems(c, m)
GateGetStats ==
    \E c \in Credentials, m \in HTTPBearerMissing : GetStats(c, m)
GateCreateProblem ==
    \E c \in Credentials, m \in HTTPBearerMissing :
        /\ Len(problems) < 1
        /\ CreateProblem(c, AuthBody, m)

NextGate ==
    \/ RegRegister
    \/ AuthLogin
    \/ GateGetProblems
    \/ GateGetStats
    \/ GateCreateProblem
    \/ AuthTick

SpecGate == Init /\ [][NextGate]_vars

---------------------------------------------------------------------------
(* SpecStats: problems of chosen dates and topics recorded by two users,   *)
(* and their statistics, one request at a time.                           *)

TitleFor(k) == IF k = 0 THEN "Two Sum" ELSE "Binary Search"

TopicsFor(k) ==
    IF k = 0 THEN <<"Arrays", "Hash Table">>
    ELSE IF k % 2 = 1 THEN <<"Hash Table", "DP", "DP">>
    ELSE <<"Arrays">>

\* A problem the client dates k days before today (k = -1: tomorrow, the
\* local date of a client east of UTC).
DatedBody(k) ==
    Body(TitleFor(k), TopicsFor(k), IsoFormat(DateOf(now) - k))

StatsBodies ==
    {DatedBody(k) : k \in (-1)..MaxDaysBack}
        \cup {Body("Two Sum", <<"Arrays">>, EmptyString),
              Body("Two Sum", <<"Arrays">>, LetterString),
              Body("", <<>>, IsoFormat(DateOf(now))),
              NoBody}

StatsRegister == \E u \in Usernames : Register(u, "pw1")
StatsCreateProblem ==
    \E c \in Fresh, b \in StatsBodies :
        /\ Len(problems) < MaxProblems
        /\ CreateProblem(c, b, 401)
StatsGetStats == \E c \in Fresh : GetStats(c, 401)

NextStats ==
    \/ StatsRegister
    \/ StatsCreateProblem
    \/ StatsGetStats

SpecStats == Init /\ [][NextStats]_vars

---------------------------------------------------------------------------
(* SpecSeed: two users seeding sample data and recording problems of      *)
(* their own, one request at a time.                                       *)

SeedBody == Body("Own problem", <<"Graphs">>, IsoFormat(DateOf(now)))

SampleTitles == {SampleProblems[k].title : k \in 1..Len(SampleProblems)}

\* The problems that came in through POST /problems.
Posted == {i \in 1..Len(problems) : problems[i].title \notin SampleTitles}

SeedRegister == \E u \in Usernames : Register(u, "pw1")
SeedSeedData == \E c \in Fresh : SeedData(c, 401)
SeedCreateProblem ==
    \E c \in Fresh :
        /\ Cardinality(Posted) < MaxProblems
        /\ CreateProblem(c, SeedBody, 401)
SeedGetProblems == \E c \in Fresh : GetProblems(c, 401)
SeedGetStats == \E c \in Fresh : GetStats(c, 401)

NextSeed ==
    \/ SeedRegister
    \/ SeedSeedData
    \/ SeedCreateProblem
    \/ SeedGetProblems
    \/ SeedGetStats

SpecSeed == Init /\ [][NextSeed]_vars

---------------------------------------------------------------------------
(* Spec: requests of several clients in flight at once.  A handler runs   *)
(* from one await of a store call to the next without interruption; the   *)
(* handlers with a single store call are one step.                        *)

ConcRegisterFind ==
    \E r \in Slots, u \in Usernames, p \in Passwords : RegisterFind(r, u, p)
ConcRegisterInsert == \E r \in Slots : RegisterInsert(r)
ConcLogin == \E u \in Usernames, p \in Passwords : Login(u, p)
ConcCreateProblem ==
    \E c \in Held :
        /\ Len(problems) < MaxProblems
        /\ CreateProblem(c, AuthBody, 401)
ConcGetProblems == \E c \in Held : GetProblems(c, 401)
ConcGetStats == \E c \in Held : GetStats(c, 401)

Next ==
    \/ ConcRegisterFind
    \/ ConcRegisterInsert
    \/ ConcLogin
    \/ ConcCreateProblem
    \/ ConcGetProblems
    \/ ConcGetStats

Spec == Init /\ [][Next]_vars

---------------------------------------------------------------------------
(* SpecBulk: one client registers and posts problem after problem, past   *)
(* the length to_list reads, listing its problems in between.             *)

BulkRegister == Register("alice", "pw1")
BulkCreateProblem ==
    \E c \in Fresh :
        /\ Len(problems) < MaxStored
        /\ CreateProblem(c, AuthBody, 401)
BulkGetProblems == \E c \in Fresh : GetProblems(c, 401)

NextBulk ==
    \/ BulkRegister
    \/ BulkCreateProblem
    \/ BulkGetProblems

SpecBulk == Init /\ [][NextBulk]_vars

---------------------------------------------------------------------------
(* SpecRace: the requests of one client in flight at once, with seed_data *)
(* split at its awaits: the count, then one step per insert_one.          *)

RaceRegister == Register("alice", "pw1")
RaceSeedCount == \E r \in Slots, c \in Fresh : SeedCount(r, c, 401)
RaceSeedInsert == \E r \in Slots : SeedInsert(r)
RaceCreateProblem ==
    \E c \in Fresh :
        /\ Len(problems) < MaxProblems
        /\ CreateProblem(c, SeedBody, 401)

NextRace ==
    \/ RaceRegister
    \/ RaceSeedCount
    \/ RaceSeedInsert
    \/ RaceCreateProblem

SpecRace == Init /\ [][NextRace]_vars

---------------------------------------------------------------------------
(* Properties of the token gate and of registration.                       *)

ProtectedOps == {"get_problems", "create_problem", "get_stats"}
GatedOps == ProtectedOps \cup {"seed_data"}

\* A token the spec calls valid: signed with the key, carrying a subject,
\* not past its expiry.
ValidToken(cred, t) ==
    /\ cred.sig = SECRET_KEY
    /\ cred.sub # 0
    /\ t < cred.exp

NamedUsers(us, username) == {i \in 1..Len(us) : us[i].username = username}

\* C2: a request to GET /problems, POST /problems or GET /stats without a
\* valid token (no header, bad signature, expired, no subject) is answered
\* 401 and leaves both stores as they were.
C2_InvalidTokenIs401 ==
    [][(/\ resp'.op \in ProtectedOps
        /\ resp' # resp
        /\ ~ValidToken(resp'.req.cred, now))
       => (/\ resp'.status = 401
           /\ users' = users
           /\ problems' = problems)]_vars

\* C6: registering a username that is not stored answers 200 and stores
\* exactly one user of that name, leaving the others as they were;
\* registering it again, in sequence, answers 400 and leaves the user store
\* unchanged.
C6_DuplicateRegistration ==
    [][\A u \in Usernames, p \in Passwords :
        Register(u, p) =>
            IF NamedUsers(users, u) # {}
            THEN /\ resp'.status = 400
                 /\ users' = users
            ELSE /\ resp'.status = 200
                 /\ Cardinality(NamedUsers(users', u)) = 1
                 /\ SubSeq(users', 1, Len(users)) = users
                 /\ verify_password(p, users'[Len(users')].password)]_vars

\* C6 witness: a second registration of a stored username was refused, and
\* the store holds that username once.
C6_Witness ==
    /\ resp.op = "register"
    /\ resp.status = 400
    /\ Cardinality(NamedUsers(users, resp.req.username)) = 1
    /\ Len(users) = 2

ThirtyDays == 30 * MinutesPerDay

---------------------------------------------------------------------------
(* Properties of POST /problems and GET /stats.                            *)

Owned(user_id) == {i \in 1..Len(problems) : problems[i].user_id = user_id}

\* The days on which the user completed a problem.
DaysOf(user_id) ==
    {FromIsoFormat(problems[i].date_completed) :
        i \in {j \in Owned(user_id) : IsIsoString(problems[j].date_completed)}}

\* The largest n with today, today - 1, ..., today - (n - 1) all in D.
RunLength(D, today) ==
    CHOOSE n \in 0..Cardinality(D) :
        /\ \A k \in 0..(n - 1) : today - k \in D
        /\ today - n \notin D

\* C3: POST /problems with an empty title or an empty topics list is
\* answered 422 and the problem store stays as it was.
C3_EmptyFieldsRejected ==
    [][(/\ resp'.op = "create_problem"
        /\ resp' # resp
        /\ ValidToken(resp'.req.cred, now)
        /\ (resp'.req.body.title = "" \/ resp'.req.body.topics = <<>>))
       => (resp'.status = 422 /\ problems' = problems)]_vars

\* C4: the current_streak GET /stats returns is the number of consecutive
\* calendar days, ending today, on which the caller completed a problem.
C4_StreakIsRunEndingToday ==
    (resp.op = "get_stats" /\ resp.status = 200) =>
        resp.stats.current_streak = RunLength(DaysOf(resp.user_id), DateOf(resp.at))

\* C5: when the caller's most recent date_completed is a day other than
\* today, GET /stats answers current_streak = 0, whatever run of days ends
\* on that day.
C5_NoGracePeriod ==
    (/\ resp.op = "get_stats"
     /\ ValidToken(resp.req.cred, resp.at)
     /\ \E i \in Owned(resp.req.cred.sub) :
            /\ IsIsoString(problems[i].date_completed)
            /\ FromIsoFormat(problems[i].date_completed) # DateOf(resp.at)
            /\ \A j \in Owned(resp.req.cred.sub) :
                   ~StrLess(problems[i].date_completed,
                            problems[j].date_completed))
    => (resp.status = 200 /\ resp.stats.current_streak = 0)

\* C5 witness: the caller has problems on yesterday and the day before and
\* none today, and was answered a streak of 0.
C5_Witness ==
    /\ resp.op = "get_stats"
    /\ resp.status = 200
    /\ DaysOf(resp.user_id) = {DateOf(resp.at) - 1, DateOf(resp.at) - 2}
    /\ resp.stats.current_streak = 0

\* The occurrences of a topic in the topics lists of the user's problems.
Occurrences(user_id, topic) ==
    {<<i, k>> \in Owned(user_id) \X (1..3) :
        k <= Len(problems[i].topics) /\ problems[i].topics[k] = topic}

TopicsOf(user_id) ==
    UNION {{problems[i].topics[k] : k \in 1..Len(problems[i].topics)} :
              i \in Owned(user_id)}

TopicCountsRight(user_id, tw) ==
    /\ Len(tw) = Cardinality(TopicsOf(user_id))
    /\ {tw[i].topic : i \in 1..Len(tw)} = TopicsOf(user_id)
    /\ \A i \in 1..Len(tw) :
           tw[i].count = Cardinality(Occurrences(user_id, tw[i].topic))

\* C9: for every user and any stored problems of that user, GET /stats
\* answers with total_solved the number of the user's problems and with one
\* topic_wise entry per distinct topic, counting its occurrences.
C9_TotalsAndTopics ==
    (resp.op = "get_stats" /\ ValidToken(resp.req.cred, resp.at)) =>
        /\ resp.status = 200
        /\ resp.stats.total_solved = Cardinality(Owned(resp.req.cred.sub))
        /\ TopicCountsRight(resp.req.cred.sub, resp.stats.topic_wise)

---------------------------------------------------------------------------
(* Properties of POST /seed-data, of concurrent registration and of login. *)

C1_UsernamesUnique ==
    \A i, j \in 1..Len(users) : users[i].username = users[j].username => i = j

\* C7: login with a username that is not stored, or with a password other
\* than the one registered with it, is answered 401; login with a
\* registered username and its password is answered 200 with a token whose
\* subject is that user's id and which the protected endpoints accept as
\* that user.  Neither changes a store.
C7_Login ==
    [][\A u \in Usernames, p \in Passwords :
        Login(u, p) =>
            LET registered == {i \in NamedUsers(users, u) :
                                  users[i].password = hash_password(p)}
            IN  /\ users' = users
                /\ problems' = problems
                /\ IF registered = {}
                   THEN resp'.status = 401
                   ELSE /\ resp'.status = 200
                        /\ \E i \in registered :
                               /\ resp'.token.sub = users[i].id
                               /\ get_current_user(resp'.token, now, 401)
                                      = [status |-> 200,
                                         user_id |-> users[i].id]]_vars

---------------------------------------------------------------------------
(* Properties of ownership and of GET /problems.                           *)

UserIds == {users[i].id : i \in 1..Len(users)}

\* C11: every stored problem carries the id of one stored user, the one
\* whose token created it; GET /problems answers the caller with exactly
\* the stored problems carrying the caller's id, in the order stored; and
\* no step changes or removes a stored problem.
C11_OwnershipAndListing ==
    /\ [](/\ \A i, j \in 1..Len(users) : users[i].id = users[j].id => i = j
          /\ \A i \in 1..Len(problems) : problems[i].user_id \in UserIds
          /\ (resp.op = "get_problems" /\ resp.status = 200) =>
                /\ resp.user_id = resp.req.cred.sub
                /\ Len(resp.problems) = Cardinality(Owned(resp.user_id))
                /\ \A i \in Owned(resp.user_id) :
                       \E k \in 1..Len(resp.problems) :
                           resp.problems[k] = problems[i]
                /\ \A k \in 1..Len(resp.problems) :
                       resp.problems[k].user_id = resp.user_id)
    /\ [][/\ Len(problems') >= Len(problems)
          /\ SubSeq(problems', 1, Len(problems)) = problems
          /\ (resp' # resp /\ resp'.op = "create_problem"
                 /\ resp'.status = 200) =>
                /\ Len(problems') = Len(problems) + 1
                /\ problems'[Len(problems')].user_id = resp'.req.cred.sub]_vars

---------------------------------------------------------------------------
(* Properties of concurrent POST /seed-data.                               *)

\* The user has a seed_data request suspended between two store calls.
Seeding(user_id) ==
    \E r \in Slots :
        inflight[r].op = "seed_data" /\ inflight[r].user_id = user_id

\* C12: under any interleaving of POST /seed-data requests of one user, no
\* sample is stored twice for that user, and once none of the user's
\* requests is in flight the user holds none or all ten of the samples.
C12_SeedRace ==
    \A id \in UserIds :
        /\ \A i, j \in Owned(id) \ Posted :
               problems[i].title = problems[j].title => i = j
        /\ ~Seeding(id) =>
               Cardinality(Owned(id) \ Posted) \in {0, Len(SampleProblems)}

====
